---- MODULE Spec2Model ----
\* A state-machine model of the OpenCTM API functions (openctm.c): one context
\* at a time, the C heap, the caller's buffers and the byte stream of a save.
EXTENDS Integers, Sequences, FiniteSets, TLC

\* --------------------------------------------------------------------------
\* Bounds of the model
\* --------------------------------------------------------------------------
\* number of blocks the C heap can hand out to mesh arrays before malloc fails
MaxAllocs == 3
\* largest vertex count carried by a hand-made header
MaxCount == 2
\* largest map count carried by a hand-made header
MaxHdrMaps == 1
\* longest texture-map or attribute-map list handed to the property dispatcher
MaxMaps == 3
\* most calls of free the loop of _ctmFreeMapList is followed through after
\* its first pass
MaxLoopFrees == 64

\* --------------------------------------------------------------------------
\* openctm.h / internal.h: enumerations and constants
\* --------------------------------------------------------------------------
CTM_IMPORT == "CTM_IMPORT"
CTM_EXPORT == "CTM_EXPORT"

CTM_METHOD_RAW == "CTM_METHOD_RAW"
CTM_METHOD_MG1 == "CTM_METHOD_MG1"
CTM_METHOD_MG2 == "CTM_METHOD_MG2"
\* a CTMmethod value that is none of the three
METHOD_OTHER == "METHOD_OTHER"
Methods == {CTM_METHOD_RAW, CTM_METHOD_MG1, CTM_METHOD_MG2}

CTM_NO_ERROR == 0
CTM_INVALID_CONTEXT == 1
CTM_INVALID_ARGUMENT == 2
CTM_INVALID_OPERATION == 3
CTM_INVALID_MESH == 4
CTM_OUT_OF_MEMORY == 5
CTM_FILE_ERROR == 6
CTM_FORMAT_ERROR == 7

CTM_NONE == 0
CTM_TRUE == 1
CTM_FALSE == 0
CTM_VERTEX_COUNT == 769
CTM_TRIANGLE_COUNT == 770
CTM_HAS_NORMALS == 771
CTM_TEX_MAP_COUNT == 772
CTM_ATTRIB_MAP_COUNT == 773
CTM_FILE_COMMENT == 777
CTM_INDICES == 1537
CTM_VERTICES == 1538
CTM_NORMALS == 1539
CTM_TEX_MAP_1 == 1792
CTM_ATTRIB_MAP_1 == 2048

_CTM_FORMAT_VERSION == 3
_CTM_HAS_NORMALS_BIT == 1

NULL == 0

\* --------------------------------------------------------------------------
\* Memory: the caller's buffers (borrowed in export mode) and the C heap
\* --------------------------------------------------------------------------
\* addresses of the arrays the caller owns
CallerVertices == {1, 2, 6}
CallerIndices == {3, 4}
CallerNormals == {5}
CallerAddrs == CallerVertices \cup CallerIndices \cup CallerNormals
\* addresses malloc can return
LibAddrs == 11..(10 + MaxAllocs)
\* addresses of the entries of map lists: the entry, its name, its values
MapNodeAddrs == 101..(100 + 2 * MaxMaps)
MapNameAddrs == 201..(200 + 2 * MaxMaps)
MapValueAddrs == 301..(300 + 2 * MaxMaps)
Addrs == CallerAddrs \cup LibAddrs \cup MapNodeAddrs \cup MapNameAddrs
           \cup MapValueAddrs

\* contents of the caller's arrays: 1 is a 3-4-5 triangle (3 vertices),
\* 2 a single vertex, 6 an equilateral triangle of side sqrt(2); 3 holds two
\* triangles over three vertices, 4 one degenerate triangle (0,0,0)
CallerMem ==
  [a \in CallerAddrs |->
     CASE a = 1 -> <<0, 0, 0, 3, 0, 0, 0, 4, 0>>
       [] a = 2 -> <<1, 1, 1>>
       [] a = 3 -> <<0, 1, 2, 2, 1, 0>>
       [] a = 4 -> <<0, 0, 0>>
       [] a = 6 -> <<0, 0, 0, 1, 1, 0, 1, 0, 1>>
       [] OTHER -> <<0, 0, 1, 0, 0, 1, 0, 0, 1>>]

\* number of vertices (resp. triangles) held by a caller array
ArrayCount(a) == Len(CallerMem[a]) \div 3

\* free(p): the block is released; every call of free is counted per address
Free(m, p) ==
  [heap |-> IF p \in LibAddrs THEN [m.heap EXCEPT ![p] = "freed"] ELSE m.heap,
   frees |-> [m.frees EXCEPT ![p] = @ + 1]]

\* the block malloc hands out when it succeeds: the lowest unused address
FreshAddr(m) ==
  IF \E a \in LibAddrs : m.heap[a] = "unused"
  THEN CHOOSE a \in LibAddrs :
         /\ m.heap[a] = "unused"
         /\ \A b \in LibAddrs : m.heap[b] = "unused" => a <= b
  ELSE NULL

\* malloc: NULL when the caller of the model says it fails or no block is left
MallocPtr(m, fails) == IF fails THEN NULL ELSE FreshAddr(m)

MallocMem(m, p) ==
  IF p = NULL THEN m ELSE [m EXCEPT !.heap[p] = "live"]

\* --------------------------------------------------------------------------
\* Exact arithmetic for CTMfloat values: a fraction n/d in lowest terms
\* --------------------------------------------------------------------------
RECURSIVE Gcd(_, _)
Gcd(a, b) == IF b = 0 THEN a ELSE Gcd(b, a % b)

Abs(x) == IF x < 0 THEN 0 - x ELSE x

Frac(n, d) ==
  LET g == Gcd(Abs(n), Abs(d))
  IN IF n = 0 THEN [n |-> 0, d |-> 1] ELSE [n |-> n \div g, d |-> d \div g]

\* sqrt of a squared length, exact: the surd c * sqrt(r) with r free of
\* squares (c = 0 for a zero length)
Sqrt(x) ==
  IF x = 0 THEN [c |-> 0, r |-> 1]
  ELSE LET k == CHOOSE k \in 1..x :
                  /\ x % (k * k) = 0
                  /\ \A j \in (k + 1)..x : x % (j * j) # 0
       IN [c |-> k, r |-> x \div (k * k)]

\* a sum of lengths is a set of surds of distinct r; the sum with one more
AddSurd(s, sum) ==
  IF s.c = 0 THEN sum
  ELSE IF \E t \in sum : t.r = s.r
  THEN {IF t.r = s.r THEN [t EXCEPT !.c = @ + s.c] ELSE t : t \in sum}
  ELSE sum \cup {s}

\* a CTMfloat value: a set of terms k * sqrt(r), k a non-zero fraction, of
\* distinct r (no term for zero); Float(q) is the value of the fraction q
Float(q) == IF q.n = 0 THEN {} ELSE {[r |-> 1, k |-> q]}

\* the fraction q times the sum of lengths sum, divided by count
Scale(q, sum, count) ==
  {[r |-> t.r, k |-> Frac(q.n * t.c, q.d * count)] : t \in sum}

\* --------------------------------------------------------------------------
\* The byte stream (stream.c): 32-bit little-endian integers and strings
\* --------------------------------------------------------------------------
\* FOURCC(str): the four characters of str packed into one unsigned integer
FOURCC(str) == str[1] + str[2] * 256 + str[3] * 65536 + str[4] * 16777216

TagOCTM == <<79, 67, 84, 77>>
TagRAW == <<82, 65, 87, 0>>
TagMG1 == <<77, 71, 49, 0>>
TagMG2 == <<77, 71, 50, 0>>
\* four bytes that are no method tag, and four that are no magic
TagBAD == <<77, 71, 51, 0>>
TagOCTX == <<79, 67, 84, 88>>

\* _ctmStreamWriteUINT: the four bytes of a value, least significant first
_ctmStreamWriteUINT(v) ==
  <<v % 256, (v \div 256) % 256, (v \div 65536) % 256, (v \div 16777216) % 256>>

\* _ctmStreamReadUINT: the value of the four bytes that follow offset pos
_ctmStreamReadUINT(stream, pos) ==
  stream[pos + 1] + stream[pos + 2] * 256 + stream[pos + 3] * 65536
    + stream[pos + 4] * 16777216

\* _ctmStreamWriteSTRING: the length, then the characters (a null string has
\* length 0)
_ctmStreamWriteSTRING(str) == _ctmStreamWriteUINT(Len(str)) \o str

\* _ctmStreamReadSTRING: the string that follows offset pos (null if empty)
_ctmStreamReadSTRING(stream, pos) ==
  LET len == _ctmStreamReadUINT(stream, pos)
  IN SubSeq(stream, pos + 5, pos + 4 + len)

\* --------------------------------------------------------------------------
\* State
\* --------------------------------------------------------------------------
VARIABLES
  live,     \* a context exists (between ctmNewContext and ctmFreeContext)
  self,     \* the fields of the _CTMcontext
  heap,     \* status of every block malloc can return
  frees,    \* number of calls of free applied to each address
  file,     \* the bytes the last save sent to its write callback
  saved,    \* what the exporting context held when file was written
  hung,     \* a call is stuck and never returned
  last,     \* the last API call: name, return path, returned value, effects
  pending   \* the failure a caller has seen reported since the last ctmError

vars == <<live, self, heap, frees, file, saved, hung, last, pending>>

\* the result of one call: new context, new memory, how it returned and what
\* it did to the outside; handle is the aContext the call was given, the
\* context unless the caller says otherwise; calls is the sequence of the
\* calls it made to the stream functions and the codecs
Ret(s, m, path, ret) ==
  [self |-> s, mem |-> m, path |-> path, ret |-> ret, sret |-> <<>>,
   codec |-> "none", wrote |-> <<>>, opened |-> FALSE, hung |-> FALSE,
   handle |-> "context", calls |-> <<>>]

\* the error kind the API documents for each way a call can return
PathError(path) ==
  CASE path = "wrong_mode" -> CTM_INVALID_OPERATION
    [] path = "bad_argument" -> CTM_INVALID_ARGUMENT
    [] path = "no_mesh" -> CTM_INVALID_MESH
    [] path = "out_of_memory" -> CTM_OUT_OF_MEMORY
    [] path = "open_failed" -> CTM_FILE_ERROR
    [] path = "bad_format" -> CTM_FORMAT_ERROR
    [] OTHER -> CTM_NO_ERROR

\* --------------------------------------------------------------------------
\* _ctmFreeMapList, _ctmClearMesh
\* --------------------------------------------------------------------------
\* one pass of the loop body over the entry map
FreeMapEntry(s, m, map) ==
  LET m1 == IF s.mMode = CTM_IMPORT /\ map.mValues # NULL
            THEN Free(m, map.mValues) ELSE m
      m2 == IF map.mName # NULL THEN Free(m1, map.mName) ELSE m1
  IN Free(m2, map.mNode)

\* the pointers one pass of the loop body hands to free, in order
EntryFrees(s, map) ==
  (IF s.mMode = CTM_IMPORT /\ map.mValues # NULL THEN <<map.mValues>>
   ELSE <<>>)
    \o (IF map.mName # NULL THEN <<map.mName>> ELSE <<>>)
    \o <<map.mNode>>

\* cut further calls of free, going round the pointers of ptrs in order: the
\* k-th call is given ptrs[((k - 1) % Len(ptrs)) + 1]. The blocks were freed
\* by the first pass, so only the count of calls changes
FreeAgain(m, ptrs, cut) ==
  [heap |-> m.heap,
   frees |-> [a \in DOMAIN m.frees |->
                m.frees[a] + Cardinality({k \in 1..cut :
                                           ptrs[((k - 1) % Len(ptrs)) + 1] = a})]]

\* the loop never advances map: on a non-empty list the first pass frees the
\* first entry, and every later pass reads that entry out of memory it has
\* freed. What the build does then is not defined: the process is killed at
\* once (free of a garbage pointer), at the first repeated free (the
\* allocator aborts), or it goes on freeing the same pointers without end.
\* cut is the number of calls of free made after the first pass; in every
\* case the call does not return: hung
_ctmFreeMapList(s, m, aMapList, cut) ==
  IF aMapList = <<>>
  THEN [mem |-> m, hung |-> FALSE]
  ELSE [mem |-> FreeAgain(FreeMapEntry(s, m, Head(aMapList)),
                          EntryFrees(s, Head(aMapList)), cut),
        hung |-> TRUE]

\* variant: the arrays are freed whatever the mode
_ctmClearMesh_FreesBorrowed(s, m, cut) ==
  LET m1 == IF s.mVertices # NULL THEN Free(m, s.mVertices) ELSE m
      m2 == IF s.mIndices # NULL THEN Free(m1, s.mIndices) ELSE m1
      m3 == IF s.mNormals # NULL THEN Free(m2, s.mNormals) ELSE m2
      s1 == [s EXCEPT !.mVertices = NULL, !.mVertexCount = 0,
                      !.mIndices = NULL, !.mTriangleCount = 0,
                      !.mNormals = NULL, !.mTexMaps = <<>>,
                      !.mTexMapCount = 0, !.mAttribMaps = <<>>,
                      !.mAttribMapCount = 0]
  IN [self |-> s1, mem |-> m3, hung |-> FALSE]

\* variant: the normal array is dropped without being freed
_ctmClearMesh_LeaksNormals(s, m, cut) ==
  LET m1 == IF s.mMode = CTM_IMPORT /\ s.mVertices # NULL
            THEN Free(m, s.mVertices) ELSE m
      m2 == IF s.mMode = CTM_IMPORT /\ s.mIndices # NULL
            THEN Free(m1, s.mIndices) ELSE m1
      s1 == [s EXCEPT !.mVertices = NULL, !.mVertexCount = 0,
                      !.mIndices = NULL, !.mTriangleCount = 0,
                      !.mNormals = NULL, !.mTexMaps = <<>>,
                      !.mTexMapCount = 0, !.mAttribMaps = <<>>,
                      !.mAttribMapCount = 0]
  IN [self |-> s1, mem |-> m2, hung |-> FALSE]

_ctmClearMesh(s, m, cut) ==
  LET m1 == IF s.mMode = CTM_IMPORT /\ s.mVertices # NULL
            THEN Free(m, s.mVertices) ELSE m
      m2 == IF s.mMode = CTM_IMPORT /\ s.mIndices # NULL
            THEN Free(m1, s.mIndices) ELSE m1
      m3 == IF s.mMode = CTM_IMPORT /\ s.mNormals # NULL
            THEN Free(m2, s.mNormals) ELSE m2
      s1 == [s EXCEPT !.mVertices = NULL, !.mVertexCount = 0,
                      !.mIndices = NULL, !.mTriangleCount = 0,
                      !.mNormals = NULL]
      t == _ctmFreeMapList(s1, m3, s1.mTexMaps, cut)
      s2 == [s1 EXCEPT !.mTexMaps = <<>>, !.mTexMapCount = 0]
      a == _ctmFreeMapList(s2, t.mem, s2.mAttribMaps, cut)
      s3 == [s2 EXCEPT !.mAttribMaps = <<>>, !.mAttribMapCount = 0]
  IN IF t.hung THEN [self |-> s1, mem |-> t.mem, hung |-> TRUE]
     ELSE IF a.hung THEN [self |-> s2, mem |-> a.mem, hung |-> TRUE]
     ELSE [self |-> s3, mem |-> a.mem, hung |-> FALSE]

\* --------------------------------------------------------------------------
\* ctmNewContext, ctmFreeContext, ctmError
\* --------------------------------------------------------------------------
ctmNewContext(aMode) ==
  [mMode |-> aMode, mError |-> CTM_NO_ERROR, mMethod |-> CTM_METHOD_MG1,
   mVertexPrecision |-> Float(Frac(1, 1024)),
   mVertices |-> NULL, mVertexCount |-> 0,
   mIndices |-> NULL, mTriangleCount |-> 0, mNormals |-> NULL,
   mTexMaps |-> <<>>, mTexMapCount |-> 0,
   mAttribMaps |-> <<>>, mAttribMapCount |-> 0,
   mFileComment |-> <<>>,
   mReadFn |-> "NULL", mWriteFn |-> "NULL", mUserData |-> "NULL"]

\* a call stuck in the clearing of the mesh: nothing after it is reached
Stuck(c) == [Ret(c.self, c.mem, "hung", 0) EXCEPT !.hung = TRUE]

ctmFreeContext(s, m, cut) ==
  LET c == _ctmClearMesh(s, m, cut)
  IN IF c.hung THEN Stuck(c)
     ELSE Ret([c.self EXCEPT !.mFileComment = <<>>], c.mem, "ok", 0)

\* variant: the register is read and not reset
ctmError_NoReset(s, m) == Ret(s, m, "ok", s.mError)

ctmError(s, m) ==
  Ret([s EXCEPT !.mError = CTM_NO_ERROR], m, "ok", s.mError)

\* --------------------------------------------------------------------------
\* ctmGetInteger, ctmGetIntegerArray, ctmGetFloatArray, ctmGetString
\* --------------------------------------------------------------------------
ctmGetInteger(s, m, aProperty) ==
  CASE aProperty = CTM_VERTEX_COUNT -> Ret(s, m, "ok", s.mVertexCount)
    [] aProperty = CTM_TRIANGLE_COUNT -> Ret(s, m, "ok", s.mTriangleCount)
    [] aProperty = CTM_TEX_MAP_COUNT -> Ret(s, m, "ok", s.mTexMapCount)
    [] aProperty = CTM_ATTRIB_MAP_COUNT -> Ret(s, m, "ok", s.mAttribMapCount)
    [] aProperty = CTM_HAS_NORMALS ->
         Ret(s, m, "ok", IF s.mNormals # NULL THEN CTM_TRUE ELSE CTM_FALSE)
    [] OTHER ->
         Ret([s EXCEPT !.mError = CTM_INVALID_ARGUMENT], m, "bad_argument", 0)

ctmGetIntegerArray(s, m, aProperty) ==
  CASE aProperty = CTM_INDICES -> Ret(s, m, "ok", s.mIndices)
    [] OTHER ->
         Ret([s EXCEPT !.mError = CTM_INVALID_ARGUMENT], m, "bad_argument",
             NULL)

\* the while loop of ctmGetFloatArray: the rest of the list when it stops
RECURSIVE WalkMapList(_, _, _)
WalkMapList(map, i, aProperty) ==
  IF map # <<>> /\ i # aProperty
  THEN WalkMapList(Tail(map), i + 1, aProperty)
  ELSE map

\* variant: the walk starts counting one identifier too far
MapLookup_OffByOne(s, m, aMapList, base, aProperty) ==
  LET map == WalkMapList(aMapList, base + 1, aProperty)
  IN IF map = <<>>
     THEN Ret([s EXCEPT !.mError = CTM_INVALID_ARGUMENT], m, "bad_argument",
              NULL)
     ELSE Ret(s, m, "ok", Head(map).mValues)

\* the lookup of one identifier in one list, once its range test has passed
MapLookup(s, m, aMapList, base, aProperty) ==
  LET map == WalkMapList(aMapList, base, aProperty)
  IN IF map = <<>>
     THEN Ret([s EXCEPT !.mError = CTM_INVALID_ARGUMENT], m, "bad_argument",
              NULL)
     ELSE Ret(s, m, "ok", Head(map).mValues)

ctmGetFloatArray(s, m, aProperty) ==
  IF aProperty >= CTM_TEX_MAP_1
       /\ (aProperty - CTM_TEX_MAP_1) < s.mTexMapCount
  THEN MapLookup(s, m, s.mTexMaps, CTM_TEX_MAP_1, aProperty)
  ELSE IF aProperty >= CTM_ATTRIB_MAP_1
            /\ (aProperty - CTM_ATTRIB_MAP_1) < s.mAttribMapCount
  THEN MapLookup(s, m, s.mAttribMaps, CTM_ATTRIB_MAP_1, aProperty)
  ELSE CASE aProperty = CTM_VERTICES -> Ret(s, m, "ok", s.mVertices)
         [] aProperty = CTM_NORMALS -> Ret(s, m, "ok", s.mNormals)
         [] OTHER ->
              Ret([s EXCEPT !.mError = CTM_INVALID_ARGUMENT], m,
                  "bad_argument", NULL)

ctmGetString(s, m, aProperty) ==
  CASE aProperty = CTM_FILE_COMMENT ->
         [Ret(s, m, "ok", 0) EXCEPT !.sret = s.mFileComment]
    [] OTHER ->
         Ret([s EXCEPT !.mError = CTM_INVALID_ARGUMENT], m, "bad_argument", 0)

\* --------------------------------------------------------------------------
\* ctmCompressionMethod, ctmVertexPrecision, ctmVertexPrecisionRel,
\* ctmTexCoordPrecision, ctmAttribPrecision, ctmFileComment
\* --------------------------------------------------------------------------
\* variant: the register is set only when no error is pending
WrongMode_KeepsFirst(s, m) ==
  Ret(IF s.mError = CTM_NO_ERROR
      THEN [s EXCEPT !.mError = CTM_INVALID_OPERATION] ELSE s,
      m, "wrong_mode", 0)

WrongMode(s, m) ==
  Ret([s EXCEPT !.mError = CTM_INVALID_OPERATION], m, "wrong_mode", 0)

BadArgument(s, m) ==
  Ret([s EXCEPT !.mError = CTM_INVALID_ARGUMENT], m, "bad_argument", 0)

ctmCompressionMethod(s, m, aMethod) ==
  IF s.mMode # CTM_EXPORT THEN WrongMode(s, m)
  ELSE IF aMethod # CTM_METHOD_RAW /\ aMethod # CTM_METHOD_MG1
            /\ aMethod # CTM_METHOD_MG2
  THEN BadArgument(s, m)
  ELSE Ret([s EXCEPT !.mMethod = aMethod], m, "ok", 0)

ctmVertexPrecision(s, m, aPrecision) ==
  IF s.mMode # CTM_EXPORT THEN WrongMode(s, m)
  ELSE IF aPrecision.n <= 0 THEN BadArgument(s, m)
  ELSE Ret([s EXCEPT !.mVertexPrecision = Float(aPrecision)], m, "ok", 0)

\* the float at offset k (from 0) of the array at address a
MemAt(a, k) == CallerMem[a][k + 1]

\* the length of the edge between the vertices at offsets p1 and p2
EdgeLength(s, p1, p2) ==
  LET d0 == MemAt(s.mVertices, p2) - MemAt(s.mVertices, p1)
      d1 == MemAt(s.mVertices, p2 + 1) - MemAt(s.mVertices, p1 + 1)
      d2 == MemAt(s.mVertices, p2 + 2) - MemAt(s.mVertices, p1 + 2)
  IN Sqrt(d0 * d0 + d1 * d1 + d2 * d2)

\* variant: the first edge of a triangle starts at its first vertex, not at
\* its last one, so the wrap edge is missed
RECURSIVE SumEdges_NoWrap(_, _, _, _)
SumEdges_NoWrap(s, i, j, p1) ==
  IF i >= s.mTriangleCount THEN {}
  ELSE IF j >= 3
  THEN SumEdges_NoWrap(s, i + 1, 0, p1)
  ELSE LET p0 == IF j = 0 THEN MemAt(s.mIndices, i * 3) * 3 ELSE p1
           p2 == MemAt(s.mIndices, i * 3 + j) * 3
       IN AddSurd(EdgeLength(s, p0, p2), SumEdges_NoWrap(s, i, j + 1, p2))

\* the two nested loops: the sum of the edge lengths from triangle i, edge j on
RECURSIVE SumEdges(_, _, _, _)
SumEdges(s, i, j, p1) ==
  IF i >= s.mTriangleCount THEN {}
  ELSE IF j >= 3
  THEN IF i + 1 < s.mTriangleCount
       THEN SumEdges(s, i + 1, 0, MemAt(s.mIndices, (i + 1) * 3 + 2) * 3)
       ELSE {}
  ELSE LET p2 == MemAt(s.mIndices, i * 3 + j) * 3
       IN AddSurd(EdgeLength(s, p1, p2), SumEdges(s, i, j + 1, p2))

\* variant: the edge count is not tested before the division
ctmVertexPrecisionRel_NoMeshCheck(s, m, aRelPrecision) ==
  IF s.mMode # CTM_EXPORT THEN WrongMode(s, m)
  ELSE IF aRelPrecision.n <= 0 THEN BadArgument(s, m)
  ELSE LET edgeCount == 3 * s.mTriangleCount
           total == IF s.mTriangleCount = 0 THEN {}
                    ELSE SumEdges(s, 0, 0, MemAt(s.mIndices, 2) * 3)
       IN Ret([s EXCEPT !.mVertexPrecision =
                  Scale(aRelPrecision, total, edgeCount)], m, "ok", 0)

ctmVertexPrecisionRel(s, m, aRelPrecision) ==
  IF s.mMode # CTM_EXPORT THEN WrongMode(s, m)
  ELSE IF aRelPrecision.n <= 0 THEN BadArgument(s, m)
  ELSE LET edgeCount == 3 * s.mTriangleCount
           total == IF s.mTriangleCount = 0 THEN {}
                    ELSE SumEdges(s, 0, 0, MemAt(s.mIndices, 2) * 3)
       IN IF edgeCount = 0
          THEN Ret([s EXCEPT !.mError = CTM_INVALID_MESH], m, "no_mesh", 0)
          ELSE Ret([s EXCEPT !.mVertexPrecision =
                       Scale(aRelPrecision, total, edgeCount)], m, "ok", 0)

ctmTexCoordPrecision(s, m, aTexMap, aPrecision) ==
  IF s.mMode # CTM_EXPORT THEN WrongMode(s, m)
  ELSE IF aPrecision.n <= 0 \/ aTexMap < CTM_TEX_MAP_1
            \/ (aTexMap - CTM_TEX_MAP_1) >= s.mTexMapCount
  THEN BadArgument(s, m)
  ELSE Ret(s, m, "ok", 0)

ctmAttribPrecision(s, m, aAttribMap, aPrecision) ==
  IF s.mMode # CTM_EXPORT THEN WrongMode(s, m)
  ELSE IF aPrecision.n <= 0 \/ aAttribMap < CTM_ATTRIB_MAP_1
            \/ (aAttribMap - CTM_ATTRIB_MAP_1) >= s.mAttribMapCount
  THEN BadArgument(s, m)
  ELSE Ret(s, m, "ok", 0)

\* aFileComment is [isNull, str]; the stored comment is <<>> for a null
\* pointer. mallocFails: the copy's malloc returns null
ctmFileComment(s, m, aFileComment, mallocFails) ==
  IF s.mMode # CTM_EXPORT THEN WrongMode(s, m)
  ELSE LET s1 == [s EXCEPT !.mFileComment = <<>>]
       IN IF aFileComment.isNull THEN Ret(s1, m, "ok", 0)
          ELSE IF Len(aFileComment.str) = 0 THEN Ret(s1, m, "ok", 0)
          ELSE IF mallocFails
          THEN Ret([s1 EXCEPT !.mError = CTM_OUT_OF_MEMORY], m,
                   "out_of_memory", 0)
          ELSE Ret([s1 EXCEPT !.mFileComment = aFileComment.str], m, "ok", 0)

\* --------------------------------------------------------------------------
\* ctmDefineMesh, ctmAddTexMap, ctmAddAttribMap
\* --------------------------------------------------------------------------
\* variant: the arguments are checked before the mode
ctmDefineMesh_ArgsFirst(s, m, aVertices, aVertexCount, aIndices, aTriangleCount, aNormals, cut) ==
  IF aVertices = NULL \/ aIndices = NULL \/ aVertexCount = 0
       \/ aTriangleCount = 0
  THEN BadArgument(s, m)
  ELSE IF s.mMode # CTM_EXPORT THEN WrongMode(s, m)
  ELSE LET c == _ctmClearMesh(s, m, cut)
       IN IF c.hung THEN Stuck(c)
          ELSE Ret([c.self EXCEPT !.mVertices = aVertices,
                                  !.mVertexCount = aVertexCount,
                                  !.mIndices = aIndices,
                                  !.mTriangleCount = aTriangleCount,
                                  !.mNormals = aNormals], c.mem, "ok", 0)

\* variant: the old mesh is cleared before the arguments are checked
ctmDefineMesh_ClearsFirst(s, m, aVertices, aVertexCount, aIndices, aTriangleCount, aNormals, cut) ==
  IF s.mMode # CTM_EXPORT THEN WrongMode(s, m)
  ELSE LET c == _ctmClearMesh(s, m, cut)
       IN IF c.hung THEN Stuck(c)
          ELSE IF aVertices = NULL \/ aIndices = NULL \/ aVertexCount = 0
                    \/ aTriangleCount = 0
          THEN BadArgument(c.self, c.mem)
          ELSE Ret([c.self EXCEPT !.mVertices = aVertices,
                                  !.mVertexCount = aVertexCount,
                                  !.mIndices = aIndices,
                                  !.mTriangleCount = aTriangleCount,
                                  !.mNormals = aNormals], c.mem, "ok", 0)

\* variant: a successful definition resets the error register
ctmDefineMesh_ResetsError(s, m, aVertices, aVertexCount, aIndices, aTriangleCount, aNormals, cut) ==
  IF s.mMode # CTM_EXPORT THEN WrongMode(s, m)
  ELSE IF aVertices = NULL \/ aIndices = NULL \/ aVertexCount = 0
            \/ aTriangleCount = 0
  THEN BadArgument(s, m)
  ELSE LET c == _ctmClearMesh(s, m, cut)
       IN IF c.hung THEN Stuck(c)
          ELSE Ret([c.self EXCEPT !.mVertices = aVertices,
                                  !.mVertexCount = aVertexCount,
                                  !.mIndices = aIndices,
                                  !.mTriangleCount = aTriangleCount,
                                  !.mNormals = aNormals,
                                  !.mError = CTM_NO_ERROR], c.mem, "ok", 0)

ctmDefineMesh(s, m, aVertices, aVertexCount, aIndices, aTriangleCount, aNormals, cut) ==
  IF s.mMode # CTM_EXPORT THEN WrongMode(s, m)
  ELSE IF aVertices = NULL \/ aIndices = NULL \/ aVertexCount = 0
            \/ aTriangleCount = 0
  THEN BadArgument(s, m)
  ELSE LET c == _ctmClearMesh(s, m, cut)
       IN IF c.hung THEN Stuck(c)
          ELSE Ret([c.self EXCEPT !.mVertices = aVertices,
                                  !.mVertexCount = aVertexCount,
                                  !.mIndices = aIndices,
                                  !.mTriangleCount = aTriangleCount,
                                  !.mNormals = aNormals], c.mem, "ok", 0)

ctmAddTexMap(s, m) == Ret(s, m, "unimplemented", CTM_NONE)

ctmAddAttribMap(s, m) == Ret(s, m, "unimplemented", CTM_NONE)

\* --------------------------------------------------------------------------
\* ctmLoad, ctmLoadCustom
\* --------------------------------------------------------------------------
FormatError(s, m) ==
  Ret([s EXCEPT !.mError = CTM_FORMAT_ERROR], m, "bad_format", 0)

OutOfMemory(s, m) ==
  Ret([s EXCEPT !.mError = CTM_OUT_OF_MEMORY], m, "out_of_memory", 0)

\* the codec reader the final switch of ctmLoadCustom calls
UncompressMesh(method) ==
  CASE method = CTM_METHOD_RAW -> "_ctmUncompressMesh_RAW"
    [] method = CTM_METHOD_MG1 -> "_ctmUncompressMesh_MG1"
    [] method = CTM_METHOD_MG2 -> "_ctmUncompressMesh_MG2"
    [] OTHER -> "none"

\* variant: a failed allocation returns without clearing the mesh
LoadArrays_NoClear(s, m, flags, oom, cut) ==
  LET pv == MallocPtr(m, oom = 1)
      mv == MallocMem(m, pv)
      sv == [s EXCEPT !.mVertices = pv]
      pi == MallocPtr(mv, oom = 2)
      mi == MallocMem(mv, pi)
      si == [sv EXCEPT !.mIndices = pi]
      pn == MallocPtr(mi, oom = 3)
      mn == MallocMem(mi, pn)
      sn == [si EXCEPT !.mNormals = pn]
  IN IF pv = NULL THEN OutOfMemory(sv, mv)
     ELSE IF pi = NULL THEN OutOfMemory(si, mi)
     ELSE IF (flags % (2 * _CTM_HAS_NORMALS_BIT)) \div _CTM_HAS_NORMALS_BIT = 1
     THEN IF pn = NULL
          THEN OutOfMemory(sn, mn)
          ELSE [Ret(sn, mn, "ok", 0)
                  EXCEPT !.codec = UncompressMesh(sn.mMethod)]
     ELSE [Ret(si, mi, "ok", 0) EXCEPT !.codec = UncompressMesh(si.mMethod)]

\* the three allocations and the call of the codec reader; oom names the
\* malloc that returns null (1 vertices, 2 indices, 3 normals, 0 none)
LoadArrays(s, m, flags, oom, cut) ==
  LET pv == MallocPtr(m, oom = 1)
      mv == MallocMem(m, pv)
      sv == [s EXCEPT !.mVertices = pv]
      pi == MallocPtr(mv, oom = 2)
      mi == MallocMem(mv, pi)
      si == [sv EXCEPT !.mIndices = pi]
      ci == _ctmClearMesh(si, mi, cut)
      pn == MallocPtr(mi, oom = 3)
      mn == MallocMem(mi, pn)
      sn == [si EXCEPT !.mNormals = pn]
      cn == _ctmClearMesh(sn, mn, cut)
  IN IF pv = NULL THEN OutOfMemory(sv, mv)
     ELSE IF pi = NULL
     THEN IF ci.hung THEN Stuck(ci) ELSE OutOfMemory(ci.self, ci.mem)
     ELSE IF (flags % (2 * _CTM_HAS_NORMALS_BIT)) \div _CTM_HAS_NORMALS_BIT = 1
     THEN IF pn = NULL
          THEN IF cn.hung THEN Stuck(cn) ELSE OutOfMemory(cn.self, cn.mem)
          ELSE [Ret(sn, mn, "ok", 0)
                  EXCEPT !.codec = UncompressMesh(sn.mMethod)]
     ELSE [Ret(si, mi, "ok", 0) EXCEPT !.codec = UncompressMesh(si.mMethod)]

\* variant: a zero triangle count is not refused
LoadCounts_NoTriangleCheck(s, m, stream, oom, cut) ==
  LET s1 == [s EXCEPT !.mVertexCount = _ctmStreamReadUINT(stream, 12)]
      s2 == [s1 EXCEPT !.mTriangleCount = _ctmStreamReadUINT(stream, 16)]
      s3 == [s2 EXCEPT !.mTexMapCount = _ctmStreamReadUINT(stream, 20),
                       !.mAttribMapCount = _ctmStreamReadUINT(stream, 24)]
      flags == _ctmStreamReadUINT(stream, 28)
      s4 == [s3 EXCEPT !.mFileComment = _ctmStreamReadSTRING(stream, 32)]
  IN IF s1.mVertexCount = 0 THEN FormatError(s1, m)
     ELSE LoadArrays(s4, m, flags, oom, cut)

\* the header fields after the method tag
LoadCounts(s, m, stream, oom, cut) ==
  LET s1 == [s EXCEPT !.mVertexCount = _ctmStreamReadUINT(stream, 12)]
      s2 == [s1 EXCEPT !.mTriangleCount = _ctmStreamReadUINT(stream, 16)]
      s3 == [s2 EXCEPT !.mTexMapCount = _ctmStreamReadUINT(stream, 20),
                       !.mAttribMapCount = _ctmStreamReadUINT(stream, 24)]
      flags == _ctmStreamReadUINT(stream, 28)
      s4 == [s3 EXCEPT !.mFileComment = _ctmStreamReadSTRING(stream, 32)]
  IN IF s1.mVertexCount = 0 THEN FormatError(s1, m)
     ELSE IF s2.mTriangleCount = 0 THEN FormatError(s2, m)
     ELSE LoadArrays(s4, m, flags, oom, cut)

ctmLoadCustom(s, m, stream, aReadFn, aUserData, oom, cut) ==
  IF s.mMode # CTM_IMPORT THEN WrongMode(s, m)
  ELSE LET s0 == [s EXCEPT !.mReadFn = aReadFn, !.mUserData = aUserData]
           c == _ctmClearMesh(s0, m, cut)
           formatVersion == _ctmStreamReadUINT(stream, 4)
           method == _ctmStreamReadUINT(stream, 8)
       IN IF c.hung THEN Stuck(c)
          ELSE IF _ctmStreamReadUINT(stream, 0) # FOURCC(TagOCTM)
          THEN FormatError(c.self, c.mem)
          ELSE IF formatVersion # _CTM_FORMAT_VERSION
          THEN FormatError(c.self, c.mem)
          ELSE IF method = FOURCC(TagRAW)
          THEN LoadCounts([c.self EXCEPT !.mMethod = CTM_METHOD_RAW], c.mem,
                          stream, oom, cut)
          ELSE IF method = FOURCC(TagMG1)
          THEN LoadCounts([c.self EXCEPT !.mMethod = CTM_METHOD_MG1], c.mem,
                          stream, oom, cut)
          ELSE IF method = FOURCC(TagMG2)
          THEN LoadCounts([c.self EXCEPT !.mMethod = CTM_METHOD_MG2], c.mem,
                          stream, oom, cut)
          ELSE FormatError(c.self, c.mem)

\* openOk: fopen returns a stream
ctmLoad(s, m, openOk, stream, oom, cut) ==
  IF s.mMode # CTM_IMPORT THEN WrongMode(s, m)
  ELSE IF ~openOk
  THEN Ret([s EXCEPT !.mError = CTM_FILE_ERROR], m, "open_failed", 0)
  ELSE ctmLoadCustom(s, m, stream, "_ctmDefaultRead", "FILE", oom, cut)

\* --------------------------------------------------------------------------
\* ctmSave, ctmSaveCustom
\* --------------------------------------------------------------------------
\* the four bytes the first switch of ctmSaveCustom writes
MethodTag(method) ==
  CASE method = CTM_METHOD_RAW -> TagRAW
    [] method = CTM_METHOD_MG1 -> TagMG1
    [] method = CTM_METHOD_MG2 -> TagMG2
    [] OTHER -> <<>>

\* the codec writer the final switch of ctmSaveCustom calls
CompressMesh(method) ==
  CASE method = CTM_METHOD_RAW -> "_ctmCompressMesh_RAW"
    [] method = CTM_METHOD_MG1 -> "_ctmCompressMesh_MG1"
    [] method = CTM_METHOD_MG2 -> "_ctmCompressMesh_MG2"
    [] OTHER -> "none"

\* the bytes of a header, in the order ctmSaveCustom writes them
HeaderBytes(magic, version, tag, vertexCount, triangleCount, texMapCount, attribMapCount, flags, comment) ==
  magic \o _ctmStreamWriteUINT(version) \o tag
    \o _ctmStreamWriteUINT(vertexCount) \o _ctmStreamWriteUINT(triangleCount)
    \o _ctmStreamWriteUINT(texMapCount) \o _ctmStreamWriteUINT(attribMapCount)
    \o _ctmStreamWriteUINT(flags) \o _ctmStreamWriteSTRING(comment)

\* one call made by ctmSaveCustom: the function and what it is given
Call(fn, arg) == [fn |-> fn, arg |-> arg]

\* variant: the codec writer is called before the comment is written
SaveCalls_CodecFirst(s, flags) ==
  <<Call("_ctmStreamWrite", TagOCTM),
    Call("_ctmStreamWriteUINT", _CTM_FORMAT_VERSION)>>
    \o (IF s.mMethod \in Methods
        THEN <<Call("_ctmStreamWrite", MethodTag(s.mMethod))>> ELSE <<>>)
    \o <<Call("_ctmStreamWriteUINT", s.mVertexCount),
         Call("_ctmStreamWriteUINT", s.mTriangleCount),
         Call("_ctmStreamWriteUINT", s.mTexMapCount),
         Call("_ctmStreamWriteUINT", s.mAttribMapCount),
         Call("_ctmStreamWriteUINT", flags)>>
    \o (IF s.mMethod \in Methods
        THEN <<Call(CompressMesh(s.mMethod), <<>>)>> ELSE <<>>)
    \o <<Call("_ctmStreamWriteSTRING", s.mFileComment)>>

\* the calls ctmSaveCustom makes once the mesh is accepted, in program order:
\* the header writes, then the codec writer of the final switch
SaveCalls(s, flags) ==
  <<Call("_ctmStreamWrite", TagOCTM),
    Call("_ctmStreamWriteUINT", _CTM_FORMAT_VERSION)>>
    \o (IF s.mMethod \in Methods
        THEN <<Call("_ctmStreamWrite", MethodTag(s.mMethod))>> ELSE <<>>)
    \o <<Call("_ctmStreamWriteUINT", s.mVertexCount),
         Call("_ctmStreamWriteUINT", s.mTriangleCount),
         Call("_ctmStreamWriteUINT", s.mTexMapCount),
         Call("_ctmStreamWriteUINT", s.mAttribMapCount),
         Call("_ctmStreamWriteUINT", flags),
         Call("_ctmStreamWriteSTRING", s.mFileComment)>>
    \o (IF s.mMethod \in Methods
        THEN <<Call(CompressMesh(s.mMethod), <<>>)>> ELSE <<>>)

\* variant: the triangle count is written before the vertex count
ctmSaveCustom_SwapsCounts(s, m, aWriteFn, aUserData) ==
  IF s.mMode # CTM_EXPORT THEN WrongMode(s, m)
  ELSE IF s.mVertices = NULL \/ s.mIndices = NULL \/ s.mVertexCount < 1
            \/ s.mTriangleCount < 1
  THEN Ret([s EXCEPT !.mError = CTM_INVALID_MESH], m, "no_mesh", 0)
  ELSE LET s1 == [s EXCEPT !.mWriteFn = aWriteFn, !.mUserData = aUserData]
           flags == IF s1.mNormals # NULL THEN _CTM_HAS_NORMALS_BIT ELSE 0
       IN [Ret(s1, m, "ok", 0) EXCEPT
             !.wrote = HeaderBytes(TagOCTM, _CTM_FORMAT_VERSION,
                                   MethodTag(s1.mMethod), s1.mTriangleCount,
                                   s1.mVertexCount, s1.mTexMapCount,
                                   s1.mAttribMapCount, flags, s1.mFileComment),
             !.codec = CompressMesh(s1.mMethod),
             !.opened = TRUE,
             !.calls = SaveCalls(s1, flags)]

\* variant: the write callback is bound before the mesh is checked
ctmSaveCustom_BindsFirst(s, m, aWriteFn, aUserData) ==
  IF s.mMode # CTM_EXPORT THEN WrongMode(s, m)
  ELSE LET s1 == [s EXCEPT !.mWriteFn = aWriteFn, !.mUserData = aUserData]
           flags == IF s1.mNormals # NULL THEN _CTM_HAS_NORMALS_BIT ELSE 0
       IN IF s.mVertices = NULL \/ s.mIndices = NULL \/ s.mVertexCount < 1
               \/ s.mTriangleCount < 1
          THEN Ret([s1 EXCEPT !.mError = CTM_INVALID_MESH], m, "no_mesh", 0)
          ELSE [Ret(s1, m, "ok", 0) EXCEPT
                  !.wrote = HeaderBytes(TagOCTM, _CTM_FORMAT_VERSION,
                                        MethodTag(s1.mMethod),
                                        s1.mVertexCount, s1.mTriangleCount,
                                        s1.mTexMapCount, s1.mAttribMapCount,
                                        flags, s1.mFileComment),
                  !.codec = CompressMesh(s1.mMethod),
                  !.opened = TRUE,
                  !.calls = SaveCalls(s1, flags)]

\* variant: the comment is released once it has been written
ctmSaveCustom_DropsComment(s, m, aWriteFn, aUserData) ==
  IF s.mMode # CTM_EXPORT THEN WrongMode(s, m)
  ELSE IF s.mVertices = NULL \/ s.mIndices = NULL \/ s.mVertexCount < 1
            \/ s.mTriangleCount < 1
  THEN Ret([s EXCEPT !.mError = CTM_INVALID_MESH], m, "no_mesh", 0)
  ELSE LET s1 == [s EXCEPT !.mWriteFn = aWriteFn, !.mUserData = aUserData]
           flags == IF s1.mNormals # NULL THEN _CTM_HAS_NORMALS_BIT ELSE 0
       IN [Ret([s1 EXCEPT !.mFileComment = <<>>], m, "ok", 0) EXCEPT
             !.wrote = HeaderBytes(TagOCTM, _CTM_FORMAT_VERSION,
                                   MethodTag(s1.mMethod), s1.mVertexCount,
                                   s1.mTriangleCount, s1.mTexMapCount,
                                   s1.mAttribMapCount, flags, s1.mFileComment),
             !.codec = CompressMesh(s1.mMethod),
             !.opened = TRUE,
             !.calls = SaveCalls(s1, flags)]

ctmSaveCustom(s, m, aWriteFn, aUserData) ==
  IF s.mMode # CTM_EXPORT THEN WrongMode(s, m)
  ELSE IF s.mVertices = NULL \/ s.mIndices = NULL \/ s.mVertexCount < 1
            \/ s.mTriangleCount < 1
  THEN Ret([s EXCEPT !.mError = CTM_INVALID_MESH], m, "no_mesh", 0)
  ELSE LET s1 == [s EXCEPT !.mWriteFn = aWriteFn, !.mUserData = aUserData]
           flags == IF s1.mNormals # NULL THEN _CTM_HAS_NORMALS_BIT ELSE 0
       IN [Ret(s1, m, "ok", 0) EXCEPT
             !.wrote = HeaderBytes(TagOCTM, _CTM_FORMAT_VERSION,
                                   MethodTag(s1.mMethod), s1.mVertexCount,
                                   s1.mTriangleCount, s1.mTexMapCount,
                                   s1.mAttribMapCount, flags, s1.mFileComment),
             !.codec = CompressMesh(s1.mMethod),
             !.opened = TRUE,
             !.calls = SaveCalls(s1, flags)]

\* openOk: fopen returns a stream; the file is then created empty even if
\* nothing is written to it
ctmSave(s, m, openOk) ==
  IF s.mMode # CTM_EXPORT THEN WrongMode(s, m)
  ELSE IF ~openOk
  THEN Ret([s EXCEPT !.mError = CTM_FILE_ERROR], m, "open_failed", 0)
  ELSE [ctmSaveCustom(s, m, "_ctmDefaultWrite", "FILE") EXCEPT !.opened = TRUE]

\* --------------------------------------------------------------------------
\* A call whose aContext is a null pointer: the test if(!self) at the top of
\* every function
\* --------------------------------------------------------------------------
ReadAccessors ==
  {"ctmError", "ctmGetInteger", "ctmGetIntegerArray", "ctmGetFloatArray",
   "ctmGetString"}

Mutators ==
  {"ctmFreeContext", "ctmCompressionMethod", "ctmVertexPrecision",
   "ctmVertexPrecisionRel", "ctmTexCoordPrecision", "ctmAttribPrecision",
   "ctmFileComment", "ctmDefineMesh", "ctmAddTexMap", "ctmAddAttribMap",
   "ctmLoad", "ctmLoadCustom", "ctmSave", "ctmSaveCustom"}

\* variant: ctmError answers no-error for a null pointer
NullHandle_NoError(op, s, m) ==
  [Ret(s, m, "null_context", 0) EXCEPT !.handle = "NULL"]

\* the return of op when self is null: s is the context the program holds,
\* which the call is not given and does not reach. The two map functions have
\* no test and no body: they return CTM_NONE as they do for any handle
NullHandle(op, s, m) ==
  CASE op = "ctmError" ->
         [Ret(s, m, "null_context", CTM_INVALID_CONTEXT)
            EXCEPT !.handle = "NULL"]
    [] op = "ctmGetInteger" ->
         [Ret(s, m, "null_context", 0) EXCEPT !.handle = "NULL"]
    [] op \in {"ctmGetIntegerArray", "ctmGetFloatArray"} ->
         [Ret(s, m, "null_context", NULL) EXCEPT !.handle = "NULL"]
    [] op = "ctmGetString" ->
         [Ret(s, m, "null_context", 0) EXCEPT !.handle = "NULL"]
    [] op = "ctmAddTexMap" -> [ctmAddTexMap(s, m) EXCEPT !.handle = "NULL"]
    [] op = "ctmAddAttribMap" ->
         [ctmAddAttribMap(s, m) EXCEPT !.handle = "NULL"]
    [] OTHER -> [Ret(s, m, "null_context", 0) EXCEPT !.handle = "NULL"]

\* --------------------------------------------------------------------------
\* Inputs of the calls
\* --------------------------------------------------------------------------
Modes == {CTM_IMPORT, CTM_EXPORT}

IntegerProperties ==
  {CTM_VERTEX_COUNT, CTM_TRIANGLE_COUNT, CTM_TEX_MAP_COUNT,
   CTM_ATTRIB_MAP_COUNT, CTM_HAS_NORMALS, CTM_NONE}

IntegerArrayProperties == {CTM_INDICES, CTM_VERTICES}

FloatArrayProperties ==
  {CTM_VERTICES, CTM_NORMALS, CTM_INDICES, CTM_TEX_MAP_1, CTM_ATTRIB_MAP_1}

\* the identifiers around and inside the two ranges of map identifiers
MapProperties ==
  {CTM_TEX_MAP_1 + k : k \in (0 - 1)..MaxMaps}
    \cup {CTM_ATTRIB_MAP_1 + k : k \in (0 - 1)..MaxMaps}

StringProperties == {CTM_FILE_COMMENT, CTM_NONE}

MethodArgs == Methods \cup {METHOD_OTHER}

PrecisionArgs == {Frac(0 - 1, 1), Frac(0, 1), Frac(1, 2)}

MapArgs == {CTM_TEX_MAP_1, CTM_ATTRIB_MAP_1}

CommentArgs ==
  {[isNull |-> TRUE, str |-> <<>>], [isNull |-> FALSE, str |-> <<>>],
   [isNull |-> FALSE, str |-> <<104, 105>>]}

\* the arguments of ctmDefineMesh: the meshes the caller's arrays form, with
\* and without normals, and the same with one array null or one count zero.
\* Every index of a triangle is below the vertex count (the caller's
\* obligation)
MeshArg(v, vc, i, tc, n) ==
  [aVertices |-> v, aVertexCount |-> vc, aIndices |-> i,
   aTriangleCount |-> tc, aNormals |-> n]

GoodMeshArgs ==
  {MeshArg(1, ArrayCount(1), 3, ArrayCount(3), n) : n \in {NULL, 5}}
    \cup {MeshArg(6, ArrayCount(6), 3, 1, NULL)}
    \cup {MeshArg(1, ArrayCount(1), 4, ArrayCount(4), n) : n \in {NULL, 5}}
    \cup {MeshArg(2, ArrayCount(2), 4, ArrayCount(4), n) : n \in {NULL, 5}}

BadMeshArgs ==
  {MeshArg(NULL, ArrayCount(1), 3, ArrayCount(3), 5),
   MeshArg(1, 0, 3, ArrayCount(3), NULL),
   MeshArg(1, ArrayCount(1), NULL, ArrayCount(3), 5),
   MeshArg(2, ArrayCount(2), 4, 0, NULL),
   MeshArg(NULL, 0, NULL, 0, NULL)}

MeshArgs == GoodMeshArgs \cup BadMeshArgs

\* hand-made streams: well-formed headers and headers with one field wrong
GoodStreams ==
  {HeaderBytes(TagOCTM, _CTM_FORMAT_VERSION, tag, MaxCount, 1, MaxHdrMaps, 0,
               1, <<99>>) : tag \in {TagRAW, TagMG1, TagMG2}}
    \cup {HeaderBytes(TagOCTM, _CTM_FORMAT_VERSION, TagRAW, 1, MaxCount, 0,
                      MaxHdrMaps, 0, <<>>)}

BadStreams ==
  {HeaderBytes(TagOCTX, _CTM_FORMAT_VERSION, TagRAW, 1, 1, 0, 0, 1, <<>>),
   HeaderBytes(TagOCTM, _CTM_FORMAT_VERSION + 1, TagRAW, 1, 1, 0, 0, 1, <<>>),
   HeaderBytes(TagOCTM, _CTM_FORMAT_VERSION, TagBAD, 1, 1, 0, 0, 1, <<>>),
   HeaderBytes(TagOCTM, _CTM_FORMAT_VERSION, TagMG2, 0, 1, 0, 0, 1, <<>>),
   HeaderBytes(TagOCTM, _CTM_FORMAT_VERSION, TagMG2, MaxCount, 0, 0, 0, 1,
               <<>>)}

Streams == GoodStreams \cup BadStreams

\* the files ctmLoad is given: one well-formed, one with a zero triangle count
FileStreams ==
  {HeaderBytes(TagOCTM, _CTM_FORMAT_VERSION, TagMG1, MaxCount, 1, MaxHdrMaps,
               0, 1, <<99>>),
   HeaderBytes(TagOCTM, _CTM_FORMAT_VERSION, TagMG2, MaxCount, 0, 0, 0, 1,
               <<>>)}

\* what an exporting context holds that a header carries
Snapshot(s) ==
  [vertexCount |-> s.mVertexCount, triangleCount |-> s.mTriangleCount,
   comment |-> s.mFileComment,
   hasNormals |-> IF s.mNormals # NULL THEN CTM_TRUE ELSE CTM_FALSE,
   method |-> s.mMethod]

NoSnapshot ==
  [vertexCount |-> 0, triangleCount |-> 0, comment |-> <<>>,
   hasNormals |-> CTM_FALSE, method |-> "none"]

\* --------------------------------------------------------------------------
\* Specification: the calls a program makes on one context at a time
\* --------------------------------------------------------------------------
\* input: the property asked for, the stream read, the relative precision, or
\* <<1>> for a mesh definition with a null array or a zero count (<<0>>
\* without); oom: the malloc that was made to fail
Called(op, o, input, oom) ==
  [op |-> op, path |-> o.path, ret |-> o.ret, sret |-> o.sret,
   codec |-> o.codec, nwritten |-> Len(o.wrote), input |-> input, oom |-> oom,
   opened |-> o.opened, handle |-> o.handle, wrote |-> o.wrote,
   calls |-> o.calls]

\* the effect of a call on the context, the heap and the record of the call
Apply(op, o, input, oom) ==
  /\ self' = o.self
  /\ heap' = o.mem.heap
  /\ frees' = o.mem.frees
  /\ hung' = o.hung
  /\ last' = Called(op, o, input, oom)
  /\ pending' = IF op = "ctmError" /\ o.handle # "NULL" THEN CTM_NO_ERROR
                ELSE IF PathError(o.path) # CTM_NO_ERROR
                THEN PathError(o.path)
                ELSE pending

Mem == [heap |-> heap, frees |-> frees]

\* where a call that clears the mesh may be cut when it gets stuck: the loop
\* of _ctmFreeMapList runs on a non-empty list only
LoopCuts ==
  IF self.mTexMaps = <<>> /\ self.mAttribMaps = <<>> THEN {0}
  ELSE 0..MaxLoopFrees

Init ==
  /\ live = TRUE
  /\ self \in {ctmNewContext(aMode) : aMode \in Modes}
  /\ heap = [a \in LibAddrs |-> "unused"]
  /\ frees = [a \in Addrs |-> 0]
  /\ file = <<>>
  /\ saved = NoSnapshot
  /\ hung = FALSE
  /\ last = Called("ctmNewContext", Ret(self, Mem, "ok", 0), <<>>, 0)
  /\ pending = CTM_NO_ERROR

FreeContext ==
  /\ live /\ ~hung
  /\ \E cut \in LoopCuts :
       Apply("ctmFreeContext", ctmFreeContext(self, Mem, cut), <<>>, 0)
  /\ live' = hung'
  /\ UNCHANGED <<file, saved>>

Error ==
  /\ live /\ ~hung
  /\ Apply("ctmError", ctmError(self, Mem), <<>>, 0)
  /\ UNCHANGED <<live, file, saved>>

GetInteger ==
  /\ live /\ ~hung
  /\ \E aProperty \in IntegerProperties :
       Apply("ctmGetInteger", ctmGetInteger(self, Mem, aProperty),
             <<aProperty>>, 0)
  /\ UNCHANGED <<live, file, saved>>

GetIntegerArray ==
  /\ live /\ ~hung
  /\ \E aProperty \in IntegerArrayProperties :
       Apply("ctmGetIntegerArray", ctmGetIntegerArray(self, Mem, aProperty),
             <<aProperty>>, 0)
  /\ UNCHANGED <<live, file, saved>>

GetFloatArray ==
  /\ live /\ ~hung
  /\ \E aProperty \in FloatArrayProperties :
       Apply("ctmGetFloatArray", ctmGetFloatArray(self, Mem, aProperty),
             <<aProperty>>, 0)
  /\ UNCHANGED <<live, file, saved>>

GetString ==
  /\ live /\ ~hung
  /\ \E aProperty \in StringProperties :
       Apply("ctmGetString", ctmGetString(self, Mem, aProperty),
             <<aProperty>>, 0)
  /\ UNCHANGED <<live, file, saved>>

CompressionMethod ==
  /\ live /\ ~hung
  /\ \E aMethod \in MethodArgs :
       Apply("ctmCompressionMethod", ctmCompressionMethod(self, Mem, aMethod),
             <<>>, 0)
  /\ UNCHANGED <<live, file, saved>>

VertexPrecision ==
  /\ live /\ ~hung
  /\ \E aPrecision \in PrecisionArgs :
       Apply("ctmVertexPrecision", ctmVertexPrecision(self, Mem, aPrecision),
             <<>>, 0)
  /\ UNCHANGED <<live, file, saved>>

VertexPrecisionRel ==
  /\ live /\ ~hung
  /\ \E aRelPrecision \in PrecisionArgs :
       Apply("ctmVertexPrecisionRel",
             ctmVertexPrecisionRel(self, Mem, aRelPrecision),
             <<aRelPrecision>>, 0)
  /\ UNCHANGED <<live, file, saved>>

TexCoordPrecision ==
  /\ live /\ ~hung
  /\ \E aTexMap \in MapArgs, aPrecision \in PrecisionArgs :
       Apply("ctmTexCoordPrecision",
             ctmTexCoordPrecision(self, Mem, aTexMap, aPrecision), <<>>, 0)
  /\ UNCHANGED <<live, file, saved>>

AttribPrecision ==
  /\ live /\ ~hung
  /\ \E aAttribMap \in MapArgs, aPrecision \in PrecisionArgs :
       Apply("ctmAttribPrecision",
             ctmAttribPrecision(self, Mem, aAttribMap, aPrecision), <<>>, 0)
  /\ UNCHANGED <<live, file, saved>>

FileComment ==
  /\ live /\ ~hung
  /\ \E aFileComment \in CommentArgs, mallocFails \in BOOLEAN :
       Apply("ctmFileComment",
             ctmFileComment(self, Mem, aFileComment, mallocFails), <<>>, 0)
  /\ UNCHANGED <<live, file, saved>>

DefineMesh ==
  /\ live /\ ~hung
  /\ \E a \in MeshArgs, cut \in LoopCuts :
       Apply("ctmDefineMesh",
             ctmDefineMesh(self, Mem, a.aVertices, a.aVertexCount, a.aIndices,
                           a.aTriangleCount, a.aNormals, cut),
             IF a \in BadMeshArgs THEN <<1>> ELSE <<0>>, 0)
  /\ UNCHANGED <<live, file, saved>>

AddTexMap ==
  /\ live /\ ~hung
  /\ Apply("ctmAddTexMap", ctmAddTexMap(self, Mem), <<>>, 0)
  /\ UNCHANGED <<live, file, saved>>

AddAttribMap ==
  /\ live /\ ~hung
  /\ Apply("ctmAddAttribMap", ctmAddAttribMap(self, Mem), <<>>, 0)
  /\ UNCHANGED <<live, file, saved>>

\* the streams and allocation failures tried on the context: all of them on
\* an importing context with no map list, which reads the stream; two streams
\* on an exporting one, which refuses the call, and on one that holds a map
\* list, which is stuck in the clearing of the mesh before it reads a byte
ReadsStream ==
  self.mMode = CTM_IMPORT /\ self.mTexMaps = <<>> /\ self.mAttribMaps = <<>>

StreamArgs == IF ReadsStream THEN Streams ELSE FileStreams

OomArgs == IF ReadsStream THEN 0..3 ELSE {0}

Load ==
  /\ live /\ ~hung
  /\ \/ Apply("ctmLoad", ctmLoad(self, Mem, FALSE, <<>>, 0, 0), <<>>, 0)
     \/ \E stream \in FileStreams, oom \in OomArgs, cut \in LoopCuts :
          Apply("ctmLoad", ctmLoad(self, Mem, TRUE, stream, oom, cut),
                stream, oom)
  /\ UNCHANGED <<live, file, saved>>

LoadCustom ==
  /\ live /\ ~hung
  /\ \E stream \in StreamArgs, oom \in OomArgs, cut \in LoopCuts :
       Apply("ctmLoadCustom",
             ctmLoadCustom(self, Mem, stream, "readFn", "userData", oom, cut),
             stream, oom)
  /\ UNCHANGED <<live, file, saved>>

Save ==
  /\ live /\ ~hung
  /\ \E openOk \in BOOLEAN :
       Apply("ctmSave", ctmSave(self, Mem, openOk), <<>>, 0)
  /\ UNCHANGED <<live, file, saved>>

SaveCustom ==
  /\ live /\ ~hung
  /\ Apply("ctmSaveCustom", ctmSaveCustom(self, Mem, "writeFn", "userData"),
           <<>>, 0)
  /\ UNCHANGED <<live, file, saved>>

Next ==
  \/ FreeContext
  \/ Error
  \/ GetInteger
  \/ GetIntegerArray
  \/ GetFloatArray
  \/ GetString
  \/ CompressionMethod
  \/ VertexPrecision
  \/ VertexPrecisionRel
  \/ TexCoordPrecision
  \/ AttribPrecision
  \/ FileComment
  \/ DefineMesh
  \/ AddTexMap
  \/ AddAttribMap
  \/ Load
  \/ LoadCustom
  \/ Save
  \/ SaveCustom

\* one context, of either mode, from ctmNewContext to ctmFreeContext
Spec == Init /\ [][Next]_vars

\* --------------------------------------------------------------------------
\* Specification of the round trip: an exporting context is set up and saved,
\* then a new importing context loads the bytes that were written
\* --------------------------------------------------------------------------
InitExport ==
  /\ Init
  /\ self.mMode = CTM_EXPORT

NewImportContext ==
  /\ ~live /\ ~hung
  /\ self' = ctmNewContext(CTM_IMPORT)
  /\ last' = Called("ctmNewContext", Ret(self', Mem, "ok", 0), <<>>, 0)
  /\ live' = TRUE
  /\ pending' = CTM_NO_ERROR
  /\ UNCHANGED <<heap, frees, file, saved, hung>>

\* a save whose write callback appends to file
SaveToFile ==
  /\ live /\ ~hung
  /\ LET o == ctmSaveCustom(self, Mem, "writeFn", "userData")
     IN /\ Apply("ctmSaveCustom", o, <<>>, 0)
        /\ file' = IF o.opened THEN o.wrote ELSE file
        /\ saved' = IF o.opened THEN Snapshot(self) ELSE saved
  /\ UNCHANGED live

\* a load whose read callback reads file from its start
LoadFromFile ==
  /\ live /\ ~hung
  /\ file # <<>>
  /\ \E oom \in 0..3, cut \in LoopCuts :
       Apply("ctmLoadCustom",
             ctmLoadCustom(self, Mem, file, "readFn", "userData", oom, cut),
             file, oom)
  /\ UNCHANGED <<live, file, saved>>

NextRoundTrip ==
  \/ DefineMesh
  \/ CompressionMethod
  \/ FileComment
  \/ SaveToFile
  \/ FreeContext
  \/ NewImportContext
  \/ LoadFromFile
  \/ GetInteger
  \/ GetString

SpecRoundTrip == InitExport /\ [][NextRoundTrip]_vars

\* --------------------------------------------------------------------------
\* Specification of the property dispatcher: a context that holds texture-map
\* and attribute-map lists of every length up to MaxMaps is queried
\* --------------------------------------------------------------------------
\* a list of n entries in insertion order, the first one numbered first + 1
MapList(first, n) ==
  [i \in 1..n |-> [mNode |-> 100 + first + i, mName |-> 200 + first + i,
                   mValues |-> 300 + first + i]]

InitMaps ==
  /\ live = TRUE
  /\ self \in {[ctmNewContext(aMode) EXCEPT
                  !.mTexMaps = MapList(0, nTex), !.mTexMapCount = nTex,
                  !.mAttribMaps = MapList(MaxMaps, nAttrib),
                  !.mAttribMapCount = nAttrib] :
                aMode \in Modes, nTex \in 0..MaxMaps, nAttrib \in 0..MaxMaps}
  /\ heap = [a \in LibAddrs |-> "unused"]
  /\ frees = [a \in Addrs |-> 0]
  /\ file = <<>>
  /\ saved = NoSnapshot
  /\ hung = FALSE
  /\ last = Called("ctmNewContext", Ret(self, Mem, "ok", 0), <<>>, 0)
  /\ pending = CTM_NO_ERROR

\* ctmGetFloatArray asked for a map identifier
GetMapArray ==
  /\ live /\ ~hung
  /\ \E aProperty \in MapProperties :
       Apply("ctmGetFloatArray", ctmGetFloatArray(self, Mem, aProperty),
             <<aProperty>>, 0)
  /\ UNCHANGED <<live, file, saved>>

NextMaps ==
  \/ GetMapArray
  \/ GetInteger
  \/ Error

SpecMaps == InitMaps /\ [][NextMaps]_vars

\* --------------------------------------------------------------------------
\* Specification of the calls on a null handle: a program that holds a context
\* with a mesh passes a null pointer to the functions of the API
\* --------------------------------------------------------------------------
NullCall ==
  /\ ~hung
  /\ \E op \in ReadAccessors \cup Mutators :
       Apply(op, NullHandle(op, self, Mem), <<>>, 0)
  /\ UNCHANGED <<live, file, saved>>

NextNull ==
  \/ NullCall
  \/ DefineMesh
  \/ FileComment
  \/ LoadCustom
  \/ GetInteger
  \/ Error
  \/ FreeContext

SpecNull == Init /\ [][NextNull]_vars

\* --------------------------------------------------------------------------
\* Specification of the clearing of map lists: a context that holds
\* texture-map and attribute-map lists of every length up to MaxMaps is
\* cleared by a mesh definition, a load or its destruction
\* --------------------------------------------------------------------------
NextClear ==
  \/ DefineMesh
  \/ LoadCustom
  \/ FreeContext
  \/ GetInteger
  \/ Error

SpecClear == InitMaps /\ [][NextClear]_vars

\* --------------------------------------------------------------------------
\* Properties
\* --------------------------------------------------------------------------
ExportOnlyOps ==
  {"ctmCompressionMethod", "ctmVertexPrecision", "ctmVertexPrecisionRel",
   "ctmTexCoordPrecision", "ctmAttribPrecision", "ctmFileComment",
   "ctmDefineMesh", "ctmSave", "ctmSaveCustom"}

ImportOnlyOps == {"ctmLoad", "ctmLoadCustom"}

\* a header the format rejects, read off its bytes
BadHeader(stream) ==
  \/ SubSeq(stream, 1, 4) # <<79, 67, 84, 77>>
  \/ SubSeq(stream, 5, 8) # <<_CTM_FORMAT_VERSION, 0, 0, 0>>
  \/ SubSeq(stream, 9, 12) \notin {<<82, 65, 87, 0>>, <<77, 71, 49, 0>>,
                                   <<77, 71, 50, 0>>}
  \/ SubSeq(stream, 13, 16) = <<0, 0, 0, 0>>
  \/ SubSeq(stream, 17, 20) = <<0, 0, 0, 0>>

\* the header announces normals
HeaderHasNormals(stream) == stream[29] % 2 = 1

\* one of the allocations of a load of stream fails: it is made to fail, or
\* the heap hp has too few blocks left
AllocationFails(hp, stream, oom) ==
  LET left == Cardinality({a \in LibAddrs : hp[a] = "unused"})
  IN \/ oom \in {1, 2}
     \/ oom = 3 /\ HeaderHasNormals(stream)
     \/ left < (IF HeaderHasNormals(stream) THEN 3 ELSE 2)

NoArrayAttached(s) ==
  s.mVertices = NULL /\ s.mIndices = NULL /\ s.mNormals = NULL

\* C1: in export mode no call of free is ever applied to an array of the
\* caller, whatever calls were made on the context, its destruction included.
C1_BorrowedNeverFreed ==
  self.mMode = CTM_EXPORT => \A a \in CallerAddrs : frees[a] = 0

\* an exporting context that saved a mesh has been destroyed
C1_Witness ==
  /\ self.mMode = CTM_EXPORT
  /\ ~live
  /\ last.op = "ctmFreeContext"
  /\ self.mWriteFn = "writeFn"

\* C2: in import mode no array allocated by a load is released twice, and
\* once the context is destroyed every allocated array has been released
\* exactly once.
C2_OwnedFreedOnce ==
  self.mMode = CTM_IMPORT =>
    /\ \A a \in LibAddrs : frees[a] <= 1
    /\ ~live => \A a \in LibAddrs :
                  /\ heap[a] # "live"
                  /\ heap[a] = "freed" => frees[a] = 1

\* every block of the heap was allocated by loads and the context destroyed
C2_Witness ==
  /\ self.mMode = CTM_IMPORT
  /\ ~live
  /\ last.op = "ctmFreeContext"
  /\ \A a \in LibAddrs : heap[a] = "freed" /\ frees[a] = 1

\* C3: ctmError returns the error of the latest failed call since the last
\* read (the later one if two calls failed) and leaves the register at
\* no-error, so that a second read right after returns no-error.
C3_ErrorReadAndReset ==
  [][last'.op = "ctmError" =>
       /\ last'.ret = pending
       /\ self'.mError = CTM_NO_ERROR
       /\ (last.op = "ctmError" => last'.ret = CTM_NO_ERROR)]_vars

\* a failure has just been read
C3_Witness ==
  /\ last.op = "ctmError"
  /\ last.ret = CTM_FORMAT_ERROR
  /\ self.mError = CTM_NO_ERROR

\* C4: an export-only call on an importing context, and a load on an
\* exporting context, sets invalid-operation whatever its arguments and
\* changes no other field of the context and nothing on the heap.
C4_ModeGating ==
  [][(\/ last'.op \in ExportOnlyOps /\ self.mMode = CTM_IMPORT
      \/ last'.op \in ImportOnlyOps /\ self.mMode = CTM_EXPORT) =>
       /\ self' = [self EXCEPT !.mError = CTM_INVALID_OPERATION]
       /\ heap' = heap
       /\ frees' = frees]_vars

\* a mesh definition with a null array was refused on an importing context
\* that holds a loaded mesh
C4_Witness ==
  /\ self.mMode = CTM_IMPORT
  /\ last.op = "ctmDefineMesh"
  /\ last.input = <<1>>
  /\ self.mError = CTM_INVALID_OPERATION
  /\ self.mVertices # NULL

\* C5: when a new importing context loads, with no allocation failing, the
\* header an exporting context saved, it holds the vertex count, triangle
\* count, comment, normals flag and method the exporting context held.
C5_RoundTrip ==
  [][(/\ last'.op = "ctmLoadCustom"
      /\ last.op = "ctmNewContext"
      /\ last'.input = file
      /\ last'.path = "ok") =>
       Snapshot(self') = saved]_vars

\* a saved mesh with normals, a comment and the RAW method was loaded
C5_Witness ==
  /\ self.mMode = CTM_IMPORT
  /\ last.op = "ctmLoadCustom"
  /\ last.input = file
  /\ last.path = "ok"
  /\ self.mVertexCount = 3
  /\ self.mTriangleCount = 2
  /\ self.mNormals # NULL
  /\ self.mFileComment = <<104, 105>>
  /\ self.mMethod = CTM_METHOD_RAW

\* C6: ctmSaveCustom on an exporting context without a mesh (a null vertex or
\* index array or a zero count) sets invalid-mesh, leaves the write callback
\* unbound, writes no byte and calls no codec writer.
C6_SaveWithoutMesh ==
  [][(/\ last'.op = "ctmSaveCustom"
      /\ self.mMode = CTM_EXPORT
      /\ (\/ self.mVertices = NULL \/ self.mIndices = NULL
          \/ self.mVertexCount = 0 \/ self.mTriangleCount = 0)) =>
       /\ self' = [self EXCEPT !.mError = CTM_INVALID_MESH]
       /\ last'.nwritten = 0
       /\ last'.codec = "none"]_vars

\* a save was refused for want of a mesh
C6_Witness ==
  /\ self.mMode = CTM_EXPORT
  /\ last.op = "ctmSaveCustom"
  /\ self.mVertices = NULL
  /\ self.mError = CTM_INVALID_MESH
  /\ self.mWriteFn = "NULL"

\* C7: ctmLoadCustom on a stream with a wrong magic, a wrong version, an
\* unknown method tag or a zero vertex or triangle count sets format-error,
\* calls no codec reader and leaves no array attached, whatever was attached.
C7_BadHeaderRejected ==
  [][(/\ last'.op = "ctmLoadCustom"
      /\ self.mMode = CTM_IMPORT
      /\ BadHeader(last'.input)) =>
       /\ self'.mError = CTM_FORMAT_ERROR
       /\ last'.codec = "none"
       /\ NoArrayAttached(self')]_vars

\* a bad header was refused by a context whose loaded mesh was released
C7_Witness ==
  /\ self.mMode = CTM_IMPORT
  /\ last.op = "ctmLoadCustom"
  /\ BadHeader(last.input)
  /\ self.mError = CTM_FORMAT_ERROR
  /\ NoArrayAttached(self)
  /\ frees[11] = 1

\* C8 as stated: ctmDefineMesh with a null array or a zero count sets
\* invalid-argument and leaves no mesh attached, the previous one being
\* cleared.
C8_RejectedDefineClears ==
  [][(/\ last'.op = "ctmDefineMesh"
      /\ self.mMode = CTM_EXPORT
      /\ last'.input = <<1>>) =>
       /\ self'.mError = CTM_INVALID_ARGUMENT
       /\ self'.mVertices = NULL /\ self'.mVertexCount = 0
       /\ self'.mIndices = NULL /\ self'.mTriangleCount = 0]_vars

\* C8 amended: ctmDefineMesh with a null array or a zero count sets
\* invalid-argument and changes nothing else: the mesh attached before the
\* call, if any, stays attached.
C8_RejectedDefineKeepsMesh ==
  [][(/\ last'.op = "ctmDefineMesh"
      /\ self.mMode = CTM_EXPORT
      /\ last'.input = <<1>>) =>
       self' = [self EXCEPT !.mError = CTM_INVALID_ARGUMENT]]_vars

\* a definition was refused and the mesh defined before is still attached
C8_Witness ==
  /\ self.mMode = CTM_EXPORT
  /\ last.op = "ctmDefineMesh"
  /\ last.input = <<1>>
  /\ self.mError = CTM_INVALID_ARGUMENT
  /\ self.mVertices # NULL
  /\ self.mTriangleCount # 0

\* C9: when the allocation of the vertex, index or normal array fails in
\* ctmLoadCustom, the call sets out-of-memory, calls no codec reader, leaves
\* no array attached and no block of the heap allocated, none released twice.
C9_AllocationFailure ==
  [][(/\ last'.op = "ctmLoadCustom"
      /\ self.mMode = CTM_IMPORT
      /\ ~BadHeader(last'.input)
      /\ AllocationFails(heap, last'.input, last'.oom)) =>
       /\ self'.mError = CTM_OUT_OF_MEMORY
       /\ last'.codec = "none"
       /\ NoArrayAttached(self')
       /\ \A a \in LibAddrs : heap'[a] # "live" /\ frees'[a] <= 1]_vars

\* the allocation of the normals failed after the two others had succeeded,
\* and both arrays were released
C9_Witness ==
  /\ self.mMode = CTM_IMPORT
  /\ last.op = "ctmLoadCustom"
  /\ last.oom = 3
  /\ self.mError = CTM_OUT_OF_MEMORY
  /\ NoArrayAttached(self)
  /\ heap[11] = "freed" /\ heap[12] = "freed" /\ heap[13] = "unused"

\* C10: with N entries in the texture-map (attribute-map) list,
\* ctmGetFloatArray returns for the identifier base+k, k in 0..N-1, the values
\* of the (k+1)-th entry and sets no error; for base+N and base-1 it returns
\* null and sets invalid-argument.
MapIndexing(base, list) ==
  LET p == last'.input[1]
      N == Len(list)
  IN /\ (p >= base /\ p < base + N) =>
          /\ last'.ret = list[p - base + 1].mValues
          /\ self'.mError = self.mError
     /\ (p = base + N \/ p = base - 1) =>
          /\ last'.ret = NULL
          /\ self'.mError = CTM_INVALID_ARGUMENT

C10_MapIndexing ==
  [][(/\ last'.op = "ctmGetFloatArray"
      /\ self.mTexMapCount = Len(self.mTexMaps)
      /\ self.mAttribMapCount = Len(self.mAttribMaps)) =>
       /\ MapIndexing(CTM_TEX_MAP_1, self.mTexMaps)
       /\ MapIndexing(CTM_ATTRIB_MAP_1, self.mAttribMaps)]_vars

\* the last of three attribute maps was asked for and returned
C10_Witness ==
  /\ last.op = "ctmGetFloatArray"
  /\ Len(self.mAttribMaps) = 3
  /\ last.input = <<CTM_ATTRIB_MAP_1 + 2>>
  /\ last.ret = self.mAttribMaps[3].mValues
  /\ last.ret # NULL

\* C11 as stated: a call on a null handle changes no field of the context the
\* program holds and nothing on the heap, opens no file, writes no byte and
\* calls no codec; every read accessor, ctmError included, returns a zero
\* value (0, null, no-error).
C11_NullHandleZero ==
  [][last'.handle = "NULL" =>
       /\ self' = self /\ heap' = heap /\ frees' = frees
       /\ ~last'.opened /\ last'.nwritten = 0 /\ last'.codec = "none"
       /\ (last'.op \in ReadAccessors =>
             last'.ret = 0 /\ last'.sret = <<>>)]_vars

\* C11 amended: a call on a null handle changes no field of the context the
\* program holds and nothing on the heap, opens no file, writes no byte and
\* calls no codec; ctmGetInteger, ctmGetIntegerArray, ctmGetFloatArray and
\* ctmGetString return 0 or null, and ctmError returns invalid-context.
C11_NullHandleTolerated ==
  [][last'.handle = "NULL" =>
       /\ self' = self /\ heap' = heap /\ frees' = frees
       /\ ~last'.opened /\ last'.nwritten = 0 /\ last'.codec = "none"
       /\ (last'.op \in ReadAccessors \ {"ctmError"} =>
             last'.ret = 0 /\ last'.sret = <<>>)
       /\ (last'.op = "ctmError" => last'.ret = CTM_INVALID_CONTEXT)]_vars

\* ctmError was given a null pointer while the context held an unread error
\* and a loaded mesh, and both are still there
C11_Witness ==
  /\ last.op = "ctmError"
  /\ last.handle = "NULL"
  /\ last.ret = CTM_INVALID_CONTEXT
  /\ live
  /\ self.mError = CTM_OUT_OF_MEMORY
  /\ pending = CTM_OUT_OF_MEMORY

\* the calls C12 names
FallibleOps ==
  {"ctmGetInteger", "ctmGetIntegerArray", "ctmGetFloatArray", "ctmGetString",
   "ctmCompressionMethod", "ctmVertexPrecision", "ctmVertexPrecisionRel",
   "ctmFileComment", "ctmDefineMesh", "ctmLoad", "ctmLoadCustom", "ctmSave",
   "ctmSaveCustom"}

\* the call that led to the next state reported an error
Failing == PathError(last'.path) # CTM_NO_ERROR

\* a load that failed after it had started to read its stream
LoadFailedInside ==
  /\ last'.op \in {"ctmLoad", "ctmLoadCustom"}
  /\ last'.path \in {"bad_format", "out_of_memory"}

\* C12 as stated: a failing call of one of the named operations sets the
\* register to its error code, whatever the register held, and changes no
\* other field of the context.
C12_FailingCallChangesNothing ==
  [][(last'.op \in FallibleOps /\ Failing) =>
       self' = [self EXCEPT !.mError = PathError(last'.path)]]_vars

\* C12 amended: a failing call sets the register to its error code, whatever
\* the register held. It changes no other field of the context, except that
\* ctmFileComment failing on allocation has released the old comment, and a
\* load failing with format-error or out-of-memory has bound its read
\* callback and user data and cleared the previous mesh: no array is left
\* attached and the map lists are empty, while mode, precision and write
\* callback are unchanged.
C12_FailingCallFrame ==
  [][(last'.op \in FallibleOps /\ Failing) =>
       /\ self'.mError = PathError(last'.path)
       /\ IF LoadFailedInside
          THEN /\ NoArrayAttached(self')
               /\ self'.mTexMaps = <<>> /\ self'.mAttribMaps = <<>>
               /\ self'.mReadFn = IF last'.op = "ctmLoad"
                                  THEN "_ctmDefaultRead" ELSE "readFn"
               /\ self'.mUserData = IF last'.op = "ctmLoad"
                                    THEN "FILE" ELSE "userData"
               /\ self'.mMode = self.mMode
               /\ self'.mVertexPrecision = self.mVertexPrecision
               /\ self'.mWriteFn = self.mWriteFn
          ELSE IF last'.op = "ctmFileComment" /\ last'.path = "out_of_memory"
          THEN self' = [self EXCEPT !.mError = CTM_OUT_OF_MEMORY,
                                    !.mFileComment = <<>>]
          ELSE self' = [self EXCEPT !.mError = PathError(last'.path)]]_vars

\* a load was refused for its format by a context that had a mesh loaded:
\* both arrays were released and the read callback is bound
C12_Witness ==
  /\ last.op = "ctmLoadCustom"
  /\ last.path = "bad_format"
  /\ self.mError = CTM_FORMAT_ERROR
  /\ NoArrayAttached(self)
  /\ frees[11] = 1 /\ frees[12] = 1
  /\ self.mReadFn = "readFn"

\* the distance between vertices a and b of the mesh of s
Dist(s, a, b) ==
  LET x == MemAt(s.mVertices, 3 * b) - MemAt(s.mVertices, 3 * a)
      y == MemAt(s.mVertices, 3 * b + 1) - MemAt(s.mVertices, 3 * a + 1)
      z == MemAt(s.mVertices, 3 * b + 2) - MemAt(s.mVertices, 3 * a + 2)
  IN Sqrt(x * x + y * y + z * z)

\* vertex j (0, 1, 2) of triangle i (from 0)
Corner(s, i, j) == MemAt(s.mIndices, 3 * i + j)

\* the sum of the lengths of the three boundary edges of the first n triangles
RECURSIVE BoundarySum(_, _)
BoundarySum(s, n) ==
  IF n = 0 THEN {}
  ELSE AddSurd(Dist(s, Corner(s, n - 1, 2), Corner(s, n - 1, 0)),
         AddSurd(Dist(s, Corner(s, n - 1, 0), Corner(s, n - 1, 1)),
           AddSurd(Dist(s, Corner(s, n - 1, 1), Corner(s, n - 1, 2)),
                   BoundarySum(s, n - 1))))

\* the mesh of s is one triangle whose three sides have the same length
Equilateral(s) ==
  /\ s.mTriangleCount = 1
  /\ Dist(s, Corner(s, 0, 0), Corner(s, 0, 1))
       = Dist(s, Corner(s, 0, 1), Corner(s, 0, 2))
  /\ Dist(s, Corner(s, 0, 1), Corner(s, 0, 2))
       = Dist(s, Corner(s, 0, 2), Corner(s, 0, 0))

\* C13: ctmVertexPrecisionRel with a factor R > 0 on an exporting context with
\* T >= 1 triangles stores R times the sum of the lengths of the three
\* boundary edges of every triangle divided by 3 * T; for one equilateral
\* triangle of side L it stores R * L.
C13_MeanEdgeLength ==
  [][(/\ last'.op = "ctmVertexPrecisionRel"
      /\ self.mMode = CTM_EXPORT
      /\ last'.input[1].n > 0
      /\ self.mTriangleCount >= 1) =>
       /\ self'.mVertexPrecision =
            Scale(last'.input[1], BoundarySum(self, self.mTriangleCount),
                  3 * self.mTriangleCount)
       /\ Equilateral(self) =>
            self'.mVertexPrecision =
              Scale(last'.input[1],
                    AddSurd(Dist(self, Corner(self, 0, 0), Corner(self, 0, 1)),
                            {}), 1)]_vars

\* the precision of the equilateral triangle of side sqrt(2) was set with the
\* factor 1/2: it is sqrt(2)/2
C13_Witness ==
  /\ last.op = "ctmVertexPrecisionRel"
  /\ last.path = "ok"
  /\ self.mVertices = 6
  /\ self.mTriangleCount = 1
  /\ self.mVertexPrecision = {[r |-> 2, k |-> Frac(1, 2)]}

\* C14: ctmAddTexMap and ctmAddAttribMap called on an importing context set
\* the error register to invalid-operation, like the other export-only calls.
C14_AddMapModeGated ==
  [][(/\ last'.op \in {"ctmAddTexMap", "ctmAddAttribMap"}
      /\ self.mMode = CTM_IMPORT) =>
       self'.mError = CTM_INVALID_OPERATION]_vars

\* the bytes a call of a stream function sends to the write callback
CallBytes(call) ==
  CASE call.fn = "_ctmStreamWrite" -> call.arg
    [] call.fn = "_ctmStreamWriteUINT" -> _ctmStreamWriteUINT(call.arg)
    [] call.fn = "_ctmStreamWriteSTRING" -> _ctmStreamWriteSTRING(call.arg)
    [] OTHER -> <<>>

RECURSIVE AllBytes(_)
AllBytes(calls) ==
  IF calls = <<>> THEN <<>> ELSE CallBytes(Head(calls)) \o AllBytes(Tail(calls))

\* call is a call of fn given arg
IsCall(call, fn, arg) == call.fn = fn /\ call.arg = arg

\* the codec writer that belongs to a method tag
WriterOfTag(tag) ==
  CASE tag = <<82, 65, 87, 0>> -> "_ctmCompressMesh_RAW"
    [] tag = <<77, 71, 49, 0>> -> "_ctmCompressMesh_MG1"
    [] tag = <<77, 71, 50, 0>> -> "_ctmCompressMesh_MG2"
    [] OTHER -> "none"

\* C15: a save of a valid mesh makes exactly ten calls, in this order: the
\* writes of the magic OCTM, the format version, the method tag, the vertex
\* count, the triangle count, the texture-map count, the attribute-map count,
\* the flags (1 if normals are attached, else 0) and the comment, and last the
\* codec writer that belongs to the method tag written; the bytes sent are
\* those of the nine writes.
C15_SaveOrder ==
  [][(/\ last'.op = "ctmSaveCustom"
      /\ self.mMode = CTM_EXPORT
      /\ self.mVertices # NULL /\ self.mIndices # NULL
      /\ self.mVertexCount >= 1 /\ self.mTriangleCount >= 1) =>
       LET c == last'.calls
       IN /\ Len(c) = 10
          /\ IsCall(c[1], "_ctmStreamWrite", <<79, 67, 84, 77>>)
          /\ IsCall(c[2], "_ctmStreamWriteUINT", _CTM_FORMAT_VERSION)
          /\ c[3].fn = "_ctmStreamWrite"
          /\ WriterOfTag(c[3].arg) # "none"
          /\ IsCall(c[4], "_ctmStreamWriteUINT", self.mVertexCount)
          /\ IsCall(c[5], "_ctmStreamWriteUINT", self.mTriangleCount)
          /\ IsCall(c[6], "_ctmStreamWriteUINT", self.mTexMapCount)
          /\ IsCall(c[7], "_ctmStreamWriteUINT", self.mAttribMapCount)
          /\ IsCall(c[8], "_ctmStreamWriteUINT",
                    IF self.mNormals # NULL THEN 1 ELSE 0)
          /\ IsCall(c[9], "_ctmStreamWriteSTRING", self.mFileComment)
          /\ c[10].fn = WriterOfTag(c[3].arg)
          /\ last'.codec = c[10].fn
          /\ last'.wrote = AllBytes(SubSeq(c, 1, 9))]_vars

\* a mesh with normals and a comment was saved with the RAW method
C15_Witness ==
  /\ last.op = "ctmSaveCustom"
  /\ last.path = "ok"
  /\ Len(last.calls) = 10
  /\ last.calls[10].fn = "_ctmCompressMesh_RAW"
  /\ last.calls[8].arg = 1
  /\ last.calls[9].arg = <<104, 105>>
  /\ self.mNormals # NULL

\* a CTMfloat value above zero: a sum of square roots, not empty, all of
\* whose coefficients are above zero
Positive(x) == x # {} /\ \A t \in x : t.k.n > 0 /\ t.k.d > 0

\* C16: in every reachable state the vertex precision of the context is above
\* zero, whatever sequence of ctmVertexPrecision, ctmVertexPrecisionRel and
\* ctmDefineMesh calls was made, on degenerate meshes too.
C16_PrecisionPositive == Positive(self.mVertexPrecision)

\* C17 as stated: ctmVertexPrecisionRel changes no field of the context other
\* than the precision and the error register, whether it succeeds or fails;
\* on an exporting context with zero triangles it sets invalid-mesh, whatever
\* the factor, and leaves the precision as it was.
C17_PrecisionRelInvalidMesh ==
  [][last'.op = "ctmVertexPrecisionRel" =>
       /\ self' = [self EXCEPT !.mVertexPrecision = self'.mVertexPrecision,
                               !.mError = self'.mError]
       /\ (self.mMode = CTM_EXPORT /\ self.mTriangleCount = 0) =>
            /\ self'.mVertexPrecision = self.mVertexPrecision
            /\ self'.mError = CTM_INVALID_MESH]_vars

\* C17 amended: ctmVertexPrecisionRel changes no field of the context other
\* than the precision and the error register, and nothing on the heap,
\* whether it succeeds or fails; on an exporting context with zero triangles
\* it leaves the precision as it was and sets invalid-mesh when the factor is
\* above zero, invalid-argument when it is not (the factor is tested first).
C17_PrecisionRelFrame ==
  [][last'.op = "ctmVertexPrecisionRel" =>
       /\ self' = [self EXCEPT !.mVertexPrecision = self'.mVertexPrecision,
                               !.mError = self'.mError]
       /\ heap' = heap /\ frees' = frees
       /\ (self.mMode = CTM_EXPORT /\ self.mTriangleCount = 0) =>
            /\ self'.mVertexPrecision = self.mVertexPrecision
            /\ self'.mError = IF last'.input[1].n > 0 THEN CTM_INVALID_MESH
                              ELSE CTM_INVALID_ARGUMENT]_vars

\* the relative precision was asked of an exporting context without a mesh
\* whose precision had been set to 1/2: invalid-mesh, and 1/2 is kept
C17_Witness ==
  /\ last.op = "ctmVertexPrecisionRel"
  /\ self.mMode = CTM_EXPORT
  /\ self.mTriangleCount = 0
  /\ self.mError = CTM_INVALID_MESH
  /\ self.mVertexPrecision = Float(Frac(1, 2))

\* C18: a call other than ctmError never takes the register from an error
\* back to no-error, and a call that succeeds leaves the register as it was;
\* so when a call has failed since the last read, ctmError returns an error
\* code.
C18_StickyError ==
  [][/\ (last'.op # "ctmError" /\ self.mError # CTM_NO_ERROR) =>
          self'.mError # CTM_NO_ERROR
     /\ (last'.op # "ctmError" /\ ~Failing) => self'.mError = self.mError
     /\ (last'.op = "ctmError" /\ pending # CTM_NO_ERROR) =>
          last'.ret # CTM_NO_ERROR]_vars

\* a mesh was defined with success while the error of a refused save was
\* unread: the error is still pending
C18_Witness ==
  /\ last.op = "ctmDefineMesh"
  /\ last.path = "ok"
  /\ self.mVertices # NULL
  /\ self.mError = CTM_INVALID_MESH
  /\ pending = CTM_INVALID_MESH

\* the call that led to the next state cleared the mesh of the context
ClearsMesh ==
  \/ last'.op = "ctmFreeContext"
  \/ last'.op = "ctmDefineMesh" /\ self.mMode = CTM_EXPORT
       /\ last'.input = <<0>>
  \/ last'.op = "ctmLoadCustom" /\ self.mMode = CTM_IMPORT

\* free was called once more on the parts of every entry of list: on its name
\* and on the entry, and on its values array in import mode only
ReleasedOnce(list) ==
  \A i \in 1..Len(list) :
    /\ frees'[list[i].mNode] = frees[list[i].mNode] + 1
    /\ frees'[list[i].mName] = frees[list[i].mName] + 1
    /\ frees'[list[i].mValues] =
         frees[list[i].mValues] + (IF self.mMode = CTM_IMPORT THEN 1 ELSE 0)

\* C19: a call that clears the mesh returns, whatever the lengths of the two
\* map lists, and has then released every entry of both lists exactly once:
\* its name, its values array in import mode only, and the entry itself.
C19_FreeMapListTerminates ==
  [][ClearsMesh =>
       /\ ~hung'
       /\ ReleasedOnce(self.mTexMaps)
       /\ ReleasedOnce(self.mAttribMaps)
       /\ self'.mTexMaps = <<>> /\ self'.mAttribMaps = <<>>]_vars

\* C20: in every reachable state the vertex count of the context is non-zero
\* exactly when a vertex array is attached, and the triangle count is non-zero
\* exactly when an index array is attached; so both counts are 0 after a load
\* that failed, which leaves no array attached.
C20_CountsMatchArrays ==
  /\ self.mVertexCount # 0 <=> self.mVertices # NULL
  /\ self.mTriangleCount # 0 <=> self.mIndices # NULL

\* the first identifier of a kind of map was asked of a context that reports
\* at least one map of that kind, and a map was returned with no error set
FirstMapFound(base, count) ==
  (last'.input = <<base>> /\ count >= 1) =>
    /\ last'.path = "ok"
    /\ last'.ret # NULL
    /\ self'.mError = self.mError

\* C21: in every reachable state the texture-map count equals the number of
\* entries of the texture-map list and the attribute-map count that of the
\* attribute-map list; so when a count is at least 1, ctmGetFloatArray returns
\* a map for the first identifier of that kind and not invalid-argument.
C21_MapCountsMatchLists ==
  [][/\ self'.mTexMapCount = Len(self'.mTexMaps)
     /\ self'.mAttribMapCount = Len(self'.mAttribMaps)
     /\ last'.op = "ctmGetFloatArray" =>
          /\ FirstMapFound(CTM_TEX_MAP_1, self.mTexMapCount)
          /\ FirstMapFound(CTM_ATTRIB_MAP_1, self.mAttribMapCount)]_vars

\* the two ways ctmSaveCustom is called: with the caller's write callback, or
\* by ctmSave with the default one
SaveOps == {"ctmSave", "ctmSaveCustom"}

\* C22: a save changes no field of the context other than the write callback
\* and its user data (and the error register when it fails), and nothing on
\* the heap; so a save that follows a successful save, whatever callback it
\* is given, makes the same calls with the same values, sends the same bytes
\* and calls the same codec writer.
C22_SaveFrame ==
  [][last'.op \in SaveOps =>
       /\ self' = [self EXCEPT !.mWriteFn = self'.mWriteFn,
                               !.mUserData = self'.mUserData,
                               !.mError = self'.mError]
       /\ ~Failing => self'.mError = self.mError
       /\ Failing => self'.mWriteFn = self.mWriteFn
                       /\ self'.mUserData = self.mUserData
       /\ heap' = heap /\ frees' = frees
       /\ (last.op \in SaveOps /\ last.path = "ok" /\ last'.path = "ok") =>
            /\ last'.calls = last.calls
            /\ last'.wrote = last.wrote
            /\ last'.codec = last.codec]_vars

\* a mesh with a comment was saved to a file while an error was unread: the
\* default callback is bound, the comment and the error are still there
C22_Witness ==
  /\ last.op = "ctmSave"
  /\ last.path = "ok"
  /\ Len(last.calls) = 10
  /\ self.mWriteFn = "_ctmDefaultWrite"
  /\ self.mFileComment = <<104, 105>>
  /\ self.mError = CTM_INVALID_ARGUMENT

TypeOK ==
  /\ live \in BOOLEAN
  /\ hung \in BOOLEAN
  /\ self.mMode \in Modes
  /\ self.mError \in 0..7

====
